---- MODULE Spec2Model ----
(***************************************************************************)
(* Okonf: the check/apply contract of facts (okonf/facts/abstract.py), the *)
(* apt facts (okonf/facts/apt.py) and the file and directory modules with  *)
(* the DirectoryCopy plan (okonf/modules/files.py).                        *)
(*                                                                         *)
(* One behaviour exercises one part of the program, chosen in Init:        *)
(*   "agg"    all_true / any_true and the truth value of the outcomes      *)
(*   "fact"   one apt fact checked and applied on a host                   *)
(*   "module" one file or directory module checked and applied on a host   *)
(*   "dir"    DirectoryCopy: plan computation and the run of its plans     *)
(***************************************************************************)
EXTENDS Naturals, Sequences, FiniteSets, TLC

VARIABLES
    scenario,   \* which part of the program this behaviour exercises
    payload,    \* agg: the result handed to FactCheck / FactResult
    outcome,    \* agg: the last value computed from payload
    fact,       \* fact: the apt fact
    apt,        \* fact: the host's package state
    calls,      \* fact: the last two finished check/apply calls, newest first
    hashBytes,  \* module, dir: get_local_file_hash returns bytes (else str)
    local,      \* module, dir: the local file tree
    remote,     \* module, dir: the remote file tree
    unit,       \* module: the module under test
    last,       \* module, dir: the last step taken against the host
    plan,       \* dir: the plan pair of the current invocation
    status,     \* dir: per unit of the plan, how far its run has come
    run         \* dir: the invocation's mode, number and command counts

vars == <<scenario, payload, outcome, fact, apt, calls, hashBytes, local,
          remote, unit, last, plan, status, run>>

aggVars == <<payload, outcome>>
factVars == <<fact, apt, calls>>
fsVars == <<hashBytes, local, remote, unit, last>>
dirVars == <<plan, status, run>>

(***************************************************************************)
(* Nested results.  A result is a bool or a list whose elements are bools  *)
(* or lists.                                                               *)
(***************************************************************************)
Leaf(b) == [kind |-> "bool", val |-> b, items |-> <<>>]
Group(s) == [kind |-> "list", val |-> FALSE, items |-> s]

\* isinstance(element, Iterable)
IsIterable(element) == element.kind = "list"

\* The builtin all(): a list element is truthy iff it is not empty.
RECURSIVE builtin_all(_)
builtin_all(iterable) ==
    IF iterable = <<>> THEN TRUE
    ELSE LET element == Head(iterable) IN
         IF IsIterable(element)
         THEN IF element.items = <<>> THEN FALSE
              ELSE builtin_all(Tail(iterable))
         ELSE IF ~element.val THEN FALSE
              ELSE builtin_all(Tail(iterable))

\* def all_true(iterable): the for loop with its early returns.
RECURSIVE all_true(_)
all_true(iterable) ==
    IF iterable = <<>> THEN TRUE
    ELSE LET element == Head(iterable) IN
         IF IsIterable(element)
         THEN IF ~all_true(element.items) THEN FALSE
              ELSE all_true(Tail(iterable))
         ELSE IF ~element.val THEN FALSE
              ELSE all_true(Tail(iterable))

\* def any_true(iterable): the for loop with its early returns.  A nested
\* list returns True when any_true of it is False.
RECURSIVE any_true(_)
any_true(iterable) ==
    IF iterable = <<>> THEN FALSE
    ELSE LET element == Head(iterable) IN
         IF IsIterable(element)
         THEN IF ~any_true(element.items) THEN TRUE
              ELSE any_true(Tail(iterable))
         ELSE IF element.val THEN TRUE
              ELSE any_true(Tail(iterable))

\* FactCheck.__bool__
FactCheck_bool(result) ==
    IF result.kind = "bool" THEN result.val ELSE all_true(result.items)

\* FactResult.__bool__
FactResult_bool(result) ==
    IF result.kind = "bool" THEN result.val ELSE any_true(result.items)

RECURSIVE NodeCount(_)
NodeCount(iterable) ==
    IF iterable = <<>> THEN 0
    ELSE LET element == Head(iterable) IN
         1 + (IF IsIterable(element) THEN NodeCount(element.items) ELSE 0)
           + NodeCount(Tail(iterable))

\* Bound: the number of elements, at all levels, of a nested list.
MaxNodes == 4

\* Every nested list with at most n elements in all.
RECURSIVE NestedLists(_)
NestedLists(n) ==
    IF n = 0 THEN {<<>>}
    ELSE {<<>>} \cup UNION {
             {<<element>> \o rest :
                  rest \in NestedLists(n - 1 - NodeCount(element.items))} :
             element \in {Leaf(TRUE), Leaf(FALSE)}
                         \cup {Group(g) : g \in NestedLists(n - 1)} }

Payloads ==
    {Leaf(TRUE), Leaf(FALSE)} \cup {Group(s) : s \in NestedLists(MaxNodes)}

NoOutcome == [op |-> "none", value |-> FALSE]
NoPayload == Leaf(FALSE)

(***************************************************************************)
(* The host as the apt facts see it: Host.run on the package commands.     *)
(***************************************************************************)
Pkgs == {"vim", "libc6"}
\* Packages dpkg lists with an architecture suffix (Multi-Arch: same).
MultiArch == {"libc6"}

\* st: per package "ii" (installed), "rc" (removed, configuration left),
\* "un" (not installed); upgradable: what the local lists know as
\* upgradable; newer: what the repository holds a newer version of;
\* arch: the host's architecture; user: who the session runs as.
AptHosts ==
    {h \in [st : [Pkgs -> {"ii", "rc", "un"}],
            upgradable : SUBSET Pkgs,
            newer : SUBSET Pkgs,
            arch : {"amd64", "arm64"},
            user : {"root", "sudoer", "user"}] :
        /\ h.upgradable \subseteq h.newer
        /\ h.newer \subseteq {p \in Pkgs : h.st[p] = "ii"}}

Cmd(sudo, prog, args) == [sudo |-> sudo, prog |-> prog, args |-> args]

WriteProgs ==
    {"apt-get install", "apt-get remove", "apt-get update",
     "apt-get upgrade", "touch", "rm", "mkdir -p", "rmdir", "put"}

\* A command that changes packages needs root: the session is root's, or
\* the command is run through sudo by a user who may.
Permitted(cmd, h) ==
    h.user = "root" \/ (cmd.sudo /\ h.user = "sudoer")

RECURSIVE SetToSeq(_)
SetToSeq(S) ==
    IF S = {} THEN <<>>
    ELSE LET x == CHOOSE y \in S : TRUE IN <<x>> \o SetToSeq(S \ {x})

DpkgLine(p, h) ==
    [tag |-> h.st[p], pkg |-> p,
     arch |-> IF p \in MultiArch THEN h.arch ELSE ""]

\* What Host.run gives back: the output's lines, the host afterwards,
\* whether the command failed, whether for a missing path, and the command.
Ran(out, host, failed, no_such_file, cmd) ==
    [out |-> out, host |-> host, failed |-> failed,
     no_such_file |-> no_such_file, cmd |-> cmd]

\* Host.run on a package command.
AptRun(cmd, h) ==
    LET ok(out, host) == Ran(out, host, FALSE, FALSE, cmd)
        fail == Ran(<<>>, h, TRUE, FALSE, cmd)
        name == cmd.args[Len(cmd.args)]
    IN
    CASE cmd.prog = "dpkg -l" ->
           ok(IF name \in Pkgs THEN <<DpkgLine(name, h)>> ELSE <<>>, h)
      [] cmd.prog = "apt list --upgradeable" ->
           ok(<<[tag |-> "Listing...", pkg |-> "", arch |-> ""]>>
              \o SetToSeq({[tag |-> "upgradable", pkg |-> p, arch |-> h.arch] :
                           p \in {q \in h.upgradable :
                                    cmd.args = <<>>
                                    \/ \E i \in 1..Len(cmd.args) :
                                           cmd.args[i] = q}}), h)
      [] cmd.prog = "apt-get install" ->
           IF ~Permitted(cmd, h) \/ name \notin Pkgs THEN fail
           ELSE ok(<<>>, [h EXCEPT !.st[name] = "ii"])
      [] cmd.prog = "apt-get remove" ->
           IF ~Permitted(cmd, h) \/ name \notin Pkgs THEN fail
           ELSE ok(<<>>,
                   [h EXCEPT
                      !.st[name] = IF cmd.args[1] = "--purge" THEN "un"
                                   ELSE IF @ = "ii" THEN "rc" ELSE @,
                      !.upgradable = @ \ {name},
                      !.newer = @ \ {name}])
      [] cmd.prog = "apt-get update" ->
           IF ~Permitted(cmd, h) THEN fail
           ELSE ok(<<>>, [h EXCEPT !.upgradable = h.newer])
      [] cmd.prog = "apt-get upgrade" ->
           IF ~Permitted(cmd, h) THEN fail
           ELSE ok(<<>>, [h EXCEPT !.upgradable = {},
                                   !.newer = @ \ h.upgradable])
      [] OTHER -> fail

(***************************************************************************)
(* What a method of a fact or of a module gives back: the value returned,  *)
(* whether the call raised, the host afterwards and the commands issued.   *)
(***************************************************************************)
Ret(value, raised, host, cmds) ==
    [value |-> value, raised |-> raised, host |-> host, cmds |-> cmds]

\* await host.run(command); return True
ReturnTrue(r) == Ret(~r.failed, r.failed, r.host, <<r.cmd>>)

\* return await host.run(command, check=False) != ''
ReturnOutput(r) == Ret(r.out # <<>>, FALSE, r.host, <<r.cmd>>)

\* return not await ...
ReturnNot(r) == Ret(~r.value, r.raised, r.host, r.cmds)

(***************************************************************************)
(* okonf/facts/apt.py                                                      *)
(***************************************************************************)
AptPresent(name, sudo) ==
    [cls |-> "AptPresent", name |-> name, names |-> <<>>,
     purge |-> FALSE, sudo |-> sudo]
AptAbsent(name, purge, sudo) ==
    [cls |-> "AptAbsent", name |-> name, names |-> <<>>,
     purge |-> purge, sudo |-> sudo]
AptUpdated(names) ==
    [cls |-> "AptUpdated", name |-> "", names |-> names,
     purge |-> FALSE, sudo |-> TRUE]
AptUpgraded(names) ==
    [cls |-> "AptUpgraded", name |-> "", names |-> names,
     purge |-> FALSE, sudo |-> TRUE]

\* re.match(r"ii\s+{}(\:amd64)?\s+".format(name), line)
DpkgMatch(name, line) ==
    /\ line.tag = "ii"
    /\ line.pkg = name
    /\ line.arch \in {"", "amd64"}

\* AptPresent.enquire, from the status dpkg printed
AptPresent_status(self, r) ==
    Ret(\E i \in 1..Len(r.out) : DpkgMatch(self.name, r.out[i]),
        FALSE, r.host, <<r.cmd>>)

\* AptPresent.enquire
AptPresent_enquire(self, h) ==
    AptPresent_status(self, AptRun(Cmd(FALSE, "dpkg -l", <<self.name>>), h))

\* AptPresent.enforce
AptPresent_enforce(self, h) ==
    IF self.sudo
    THEN ReturnTrue(AptRun(Cmd(TRUE, "apt-get install",
                               <<"-y", self.name>>), h))
    ELSE ReturnTrue(AptRun(Cmd(FALSE, "apt-get install",
                               <<"-y", self.name>>), h))

\* AptAbsent.enquire
AptAbsent_enquire(self, h) == ReturnNot(AptPresent_enquire(self, h))

\* '--purge' if self.purge else ''
purge_flag(self) == IF self.purge THEN "--purge" ELSE ""

\* AptAbsent.enforce: the command without sudo when self.sudo is set.
AptAbsent_enforce(self, h) ==
    IF self.sudo
    THEN ReturnTrue(AptRun(Cmd(FALSE, "apt-get remove",
                               <<purge_flag(self), "-y", self.name>>), h))
    ELSE ReturnTrue(AptRun(Cmd(TRUE, "apt-get remove",
                               <<purge_flag(self), "-y", self.name>>), h))

\* AptUpdated.enquire
AptUpdated_enquire(self, h) == Ret(FALSE, FALSE, h, <<>>)

\* AptUpdated.enforce
AptUpdated_enforce(self, h) ==
    ReturnTrue(AptRun(Cmd(TRUE, "apt-get update", <<>>), h))

\* parse_upgradeable: the names of the lines the pattern matches.
parse_upgradeable(lines) ==
    {lines[i].pkg : i \in {j \in 1..Len(lines) : lines[j].tag = "upgradable"}}

\* if status.startswith('Listing...\n'): status = status[len(...):]
strip_listing(out) ==
    IF out # <<>> /\ out[1].tag = "Listing..." THEN Tail(out) ELSE out

\* AptUpgraded.info, from the status apt printed
AptUpgraded_status(r) ==
    Ret(parse_upgradeable(strip_listing(r.out)), r.failed, r.host, <<r.cmd>>)

\* AptUpgraded.info
AptUpgraded_info(self, h) ==
    AptUpgraded_status(AptRun(Cmd(FALSE, "apt list --upgradeable",
                                  self.names), h))

\* return len(upgradeable) == 0
ReturnEmpty(r) == Ret(Cardinality(r.value) = 0, r.raised, r.host, r.cmds)

\* AptUpgraded.enquire
AptUpgraded_enquire(self, h) == ReturnEmpty(AptUpgraded_info(self, h))

\* AptUpgraded.enforce
AptUpgraded_enforce(self, h) ==
    ReturnTrue(AptRun(Cmd(TRUE, "apt-get upgrade", <<>>), h))

\* self.enquire(host), by the fact's class
enquire(self, h) ==
    CASE self.cls = "AptPresent" -> AptPresent_enquire(self, h)
      [] self.cls = "AptAbsent" -> AptAbsent_enquire(self, h)
      [] self.cls = "AptUpdated" -> AptUpdated_enquire(self, h)
      [] self.cls = "AptUpgraded" -> AptUpgraded_enquire(self, h)

\* self.enforce(host), by the fact's class
enforce(self, h) ==
    CASE self.cls = "AptPresent" -> AptPresent_enforce(self, h)
      [] self.cls = "AptAbsent" -> AptAbsent_enforce(self, h)
      [] self.cls = "AptUpdated" -> AptUpdated_enforce(self, h)
      [] self.cls = "AptUpgraded" -> AptUpgraded_enforce(self, h)

(***************************************************************************)
(* okonf/facts/abstract.py: Fact.check and Fact.apply                      *)
(***************************************************************************)
\* A finished call of check or apply: the host before it, the fact's
\* methods it called in order, the commands it issued, the truth value of
\* the check it made, whether it raised, the truth value of its outcome
\* and the host after it.
Call(op, pre, trace, cmds, checked, raised, value, host) ==
    [op |-> op, pre |-> pre, trace |-> trace, cmds |-> cmds,
     checked |-> checked, raised |-> raised, value |-> value, host |-> host]

NoCall(h) == Call("none", h, <<>>, <<>>, FALSE, FALSE, FALSE, h)

\* Fact.check: result = FactCheck(self, <what enquire returned>)
Fact_check_result(h, r) ==
    Call("check", h, <<"enquire">>, r.cmds,
         ~r.raised /\ FactCheck_bool(Leaf(r.value)), r.raised,
         ~r.raised /\ FactCheck_bool(Leaf(r.value)), r.host)

\* Fact.check
Fact_check(self, h) == Fact_check_result(h, enquire(self, h))

\* Fact.apply: result = FactResult(self, <what enforce returned>)
Fact_apply_result(h, c, e) ==
    Call("apply", h, c.trace \o <<"enforce">>, c.cmds \o e.cmds, c.checked,
         e.raised, ~e.raised /\ FactResult_bool(Leaf(e.value)), e.host)

\* Fact.apply: result = FactResult(self, False)
Fact_apply_unchanged(h, c) ==
    Call("apply", h, c.trace, c.cmds, c.checked, c.raised,
         ~c.raised /\ FactResult_bool(Leaf(FALSE)), c.host)

\* An apply that enforces whatever the check reported.
Fact_apply_always(self, h, c) ==
    Fact_apply_result(h, c, enforce(self, c.host))

\* Fact.apply, from its check on
Fact_apply_checked(self, h, c) ==
    IF c.raised THEN Fact_apply_unchanged(h, c)
    ELSE IF ~c.checked THEN Fact_apply_result(h, c, enforce(self, c.host))
    ELSE Fact_apply_unchanged(h, c)

\* Fact.apply
Fact_apply(self, h) == Fact_apply_checked(self, h, Fact_check(self, h))

Facts ==
    {AptPresent(n, s) : n \in Pkgs, s \in BOOLEAN}
    \cup {AptAbsent(n, pu, s) : n \in Pkgs, pu \in BOOLEAN, s \in BOOLEAN}
    \cup {AptUpdated(<<>>)}
    \cup {AptUpgraded(ns) : ns \in {<<>>, <<"vim">>}}

(***************************************************************************)
(* File trees.  A path is the sequence of its names; <<>> is "/".  A tree  *)
(* holds the set of its directories and the content of each of its files.  *)
(***************************************************************************)
Parent(path) == SubSeq(path, 1, Len(path) - 1)

IsPrefix(pre, path) ==
    Len(pre) <= Len(path) /\ SubSeq(path, 1, Len(pre)) = pre

IsDir(fs, path) == path = <<>> \/ path \in fs.dirs
IsFile(fs, path) == path \in DOMAIN fs.files
Exists(fs, path) == IsDir(fs, path) \/ IsFile(fs, path)

\* The paths of a tree at or below path.
Under(fs, path) ==
    {q \in fs.dirs \cup DOMAIN fs.files : IsPrefix(path, q)}

WithFile(fs, path, content) ==
    [fs EXCEPT !.files = [q \in DOMAIN fs.files \cup {path} |->
                            IF q = path THEN content ELSE fs.files[q]]]

WithoutFile(fs, path) ==
    [fs EXCEPT !.files = [q \in DOMAIN fs.files \ {path} |-> fs.files[q]]]

\* The path and each of its ancestors below "/".
Ancestors(path) == {SubSeq(path, 1, n) : n \in 1..Len(path)}

\* hashlib.sha256(content).hexdigest(): a str
sha256_hexdigest(content) == [type |-> "str", hex |-> <<"sha256", content>>]

\* str.encode(): bytes, which no str equals
encode(str) == [type |-> "bytes", hex |-> str.hex]

None == [type |-> "None", hex |-> <<>>]
False == [type |-> "bool", hex |-> <<>>]

\* Host.run and Host.put on the file commands.  A line of the output is
\* the sequence of its words.
FsRun(cmd, fs) ==
    LET ok(out, host) == Ran(out, host, FALSE, FALSE, cmd)
        fail == Ran(<<>>, fs, TRUE, FALSE, cmd)
        missing == Ran(<<>>, fs, TRUE, TRUE, cmd)
        path == cmd.args[1]
    IN
    CASE cmd.prog = "ls -d" ->
           ok(IF Exists(fs, path) THEN << <<path>> >> ELSE <<>>, fs)
      [] cmd.prog = "sha256sum" ->
           IF IsFile(fs, path)
           THEN ok(<< <<sha256_hexdigest(fs.files[path]), path>> >>, fs)
           ELSE IF IsDir(fs, path) THEN fail ELSE missing
      [] cmd.prog = "find -type f -exec sha256sum" ->
           IF ~Exists(fs, path) THEN missing
           ELSE ok(SetToSeq({<<sha256_hexdigest(fs.files[q]), q>> :
                                q \in Under(fs, path) \cap DOMAIN fs.files}),
                   fs)
      [] cmd.prog = "find -type d" ->
           IF ~Exists(fs, path) THEN missing
           ELSE ok(SetToSeq({<<q>> : q \in Under(fs, path) \cap fs.dirs}), fs)
      [] cmd.prog = "touch" ->
           IF Exists(fs, path) THEN ok(<<>>, fs)
           ELSE IF IsDir(fs, Parent(path)) THEN ok(<<>>, WithFile(fs, path, 0))
           ELSE fail
      [] cmd.prog = "rm" ->
           IF IsFile(fs, path) THEN ok(<<>>, WithoutFile(fs, path)) ELSE fail
      [] cmd.prog = "mkdir -p" ->
           IF \E q \in Ancestors(path) : IsFile(fs, q) THEN fail
           ELSE ok(<<>>, [fs EXCEPT !.dirs = @ \cup Ancestors(path)])
      [] cmd.prog = "rmdir" ->
           IF path \in fs.dirs /\ Under(fs, path) = {path}
           THEN ok(<<>>, [fs EXCEPT !.dirs = @ \ {path}])
           ELSE fail
      [] cmd.prog = "put" ->
           IF IsDir(fs, Parent(path)) /\ ~IsDir(fs, path)
           THEN ok(<<>>, WithFile(fs, path, cmd.args[2]))
           ELSE fail
      [] OTHER -> fail

(***************************************************************************)
(* okonf/modules/files.py: the file and directory modules.                 *)
(***************************************************************************)
Mod(cls, remote_path, local_path, hash, remote_hash, content) ==
    [cls |-> cls, remote_path |-> remote_path, local_path |-> local_path,
     hash |-> hash, remote_hash |-> remote_hash, content |-> content]

FilePresent(remote_path) ==
    Mod("FilePresent", remote_path, <<>>, None, None, 0)
FileAbsent(remote_path) ==
    Mod("FileAbsent", remote_path, <<>>, None, None, 0)
FileHash(remote_path, hash) ==
    Mod("FileHash", remote_path, <<>>, hash, None, 0)
FileCopy(remote_path, local_path, remote_hash) ==
    Mod("FileCopy", remote_path, local_path, None, remote_hash, 0)
FileContent(remote_path, content) ==
    Mod("FileContent", remote_path, <<>>, None, None, content)
DirectoryPresent(remote_path) ==
    Mod("DirectoryPresent", remote_path, <<>>, None, None, 0)
DirectoryAbsent(remote_path) ==
    Mod("DirectoryAbsent", remote_path, <<>>, None, None, 0)

\* okonf.utils.get_local_file_hash: the digest of the local file's content,
\* as bytes or as a str.
get_local_file_hash(local_path) ==
    IF hashBytes THEN encode(sha256_hexdigest(local.files[local_path]))
    ELSE sha256_hexdigest(local.files[local_path])

\* A presence check that creates what it looks for.
FilePresent_check_touch(self, fs) ==
    ReturnTrue(FsRun(Cmd(FALSE, "touch", <<self.remote_path>>), fs))

\* FilePresent.check
FilePresent_check(self, fs) ==
    ReturnOutput(FsRun(Cmd(FALSE, "ls -d", <<self.remote_path>>), fs))

\* FilePresent.apply
FilePresent_apply(self, fs) ==
    ReturnTrue(FsRun(Cmd(FALSE, "touch", <<self.remote_path>>), fs))

\* FileAbsent.check
FileAbsent_check(self, fs) == ReturnNot(FilePresent_check(self, fs))

\* FileAbsent.apply
FileAbsent_apply(self, fs) ==
    ReturnTrue(FsRun(Cmd(FALSE, "rm", <<self.remote_path>>), fs))

\* FileHash.get_hash, from the output of sha256sum: the digest as bytes,
\* False for a missing file
FileHash_output(r) ==
    IF r.no_such_file THEN Ret(False, FALSE, r.host, <<r.cmd>>)
    ELSE IF r.failed THEN Ret(False, TRUE, r.host, <<r.cmd>>)
    ELSE Ret(encode(r.out[1][1]), FALSE, r.host, <<r.cmd>>)

\* FileHash.get_hash
FileHash_get_hash(self, fs) ==
    FileHash_output(FsRun(Cmd(FALSE, "sha256sum", <<self.remote_path>>), fs))

\* return remote_hash == self.hash
ReturnEqual(r, hash) ==
    Ret(~r.raised /\ r.value = hash, r.raised, r.host, r.cmds)

\* FileHash.check
FileHash_check(self, fs) == ReturnEqual(FileHash_get_hash(self, fs), self.hash)

\* An apply that creates the file instead of raising.
FileHash_apply_touch(self, fs) ==
    ReturnTrue(FsRun(Cmd(FALSE, "touch", <<self.remote_path>>), fs))

\* FileHash.apply
FileHash_apply(self, fs) == Ret(FALSE, TRUE, fs, <<>>)

\* A check that asks the host for the fingerprint whatever it was given.
FileCopy_check_remote(self, fs) ==
    IF self.local_path \notin DOMAIN local.files
    THEN Ret(FALSE, TRUE, fs, <<>>)
    ELSE FileHash_check(FileHash(self.remote_path,
                                 get_local_file_hash(self.local_path)), fs)

\* FileCopy.check
FileCopy_check(self, fs) ==
    IF self.local_path \notin DOMAIN local.files
    THEN Ret(FALSE, TRUE, fs, <<>>)
    ELSE IF self.remote_hash # None
    THEN Ret(get_local_file_hash(self.local_path) = self.remote_hash,
             FALSE, fs, <<>>)
    ELSE FileHash_check(FileHash(self.remote_path,
                                 get_local_file_hash(self.local_path)), fs)

\* FileCopy.apply
FileCopy_apply(self, fs) ==
    IF self.local_path \notin DOMAIN local.files
    THEN Ret(FALSE, TRUE, fs, <<>>)
    ELSE ReturnTrue(FsRun(Cmd(FALSE, "put",
                              <<self.remote_path,
                                local.files[self.local_path]>>), fs))

\* FileContent.check
FileContent_check(self, fs) ==
    FileHash_check(FileHash(self.remote_path,
                            encode(sha256_hexdigest(self.content))), fs)

\* FileContent.apply
FileContent_apply(self, fs) ==
    ReturnTrue(FsRun(Cmd(FALSE, "put", <<self.remote_path, self.content>>),
                     fs))

\* DirectoryPresent.check
DirectoryPresent_check(self, fs) ==
    ReturnOutput(FsRun(Cmd(FALSE, "ls -d", <<self.remote_path>>), fs))

\* DirectoryPresent.apply
DirectoryPresent_apply(self, fs) ==
    ReturnTrue(FsRun(Cmd(FALSE, "mkdir -p", <<self.remote_path>>), fs))

\* DirectoryAbsent.check
DirectoryAbsent_check(self, fs) == ReturnNot(DirectoryPresent_check(self, fs))

\* DirectoryAbsent.apply
DirectoryAbsent_apply(self, fs) ==
    ReturnTrue(FsRun(Cmd(FALSE, "rmdir", <<self.remote_path>>), fs))

\* self.check(host), by the module's class
check(self, fs) ==
    CASE self.cls = "FilePresent" -> FilePresent_check(self, fs)
      [] self.cls = "FileAbsent" -> FileAbsent_check(self, fs)
      [] self.cls = "FileHash" -> FileHash_check(self, fs)
      [] self.cls = "FileCopy" -> FileCopy_check(self, fs)
      [] self.cls = "FileContent" -> FileContent_check(self, fs)
      [] self.cls = "DirectoryPresent" -> DirectoryPresent_check(self, fs)
      [] self.cls = "DirectoryAbsent" -> DirectoryAbsent_check(self, fs)

\* self.apply(host), by the module's class
apply(self, fs) ==
    CASE self.cls = "FilePresent" -> FilePresent_apply(self, fs)
      [] self.cls = "FileAbsent" -> FileAbsent_apply(self, fs)
      [] self.cls = "FileHash" -> FileHash_apply(self, fs)
      [] self.cls = "FileCopy" -> FileCopy_apply(self, fs)
      [] self.cls = "FileContent" -> FileContent_apply(self, fs)
      [] self.cls = "DirectoryPresent" -> DirectoryPresent_apply(self, fs)
      [] self.cls = "DirectoryAbsent" -> DirectoryAbsent_apply(self, fs)

(***************************************************************************)
(* okonf/modules/files.py: DirectoryCopy                                   *)
(***************************************************************************)
DirectoryCopy(remote_path, local_path) ==
    [remote_path |-> remote_path, local_path |-> local_path]

\* output.strip().split('\n'): an empty output is one empty line.
split_lines(output) == IF output = <<>> THEN << <<>> >> ELSE output

\* DirectoryCopy.info_files_hash, from the output of find: the value maps
\* each path to its digest (a str).
files_hash_output(r) ==
    LET lines == split_lines(r.out)
        kept == {i \in 1..Len(split_lines(r.out)) : split_lines(r.out)[i] # <<>>}
    IN IF r.no_such_file THEN Ret(<<>>, FALSE, r.host, <<r.cmd>>)
       ELSE IF r.failed THEN Ret(<<>>, TRUE, r.host, <<r.cmd>>)
       ELSE Ret([q \in {lines[i][2] : i \in kept} |->
                   lines[CHOOSE i \in kept : lines[i][2] = q][1]],
                FALSE, r.host, <<r.cmd>>)

\* DirectoryCopy.info_files_hash
info_files_hash(self, fs) ==
    files_hash_output(FsRun(Cmd(FALSE, "find -type f -exec sha256sum",
                                <<self.remote_path>>), fs))

\* The directory enumeration without its except clause: a missing path
\* raises.
dirs_present_output_uncaught(r) ==
    IF r.failed THEN Ret(<<>>, TRUE, r.host, <<r.cmd>>)
    ELSE Ret([i \in 1..Len(split_lines(r.out)) |->
                IF split_lines(r.out)[i] = <<>> THEN <<>>
                ELSE split_lines(r.out)[i][1]],
             FALSE, r.host, <<r.cmd>>)

\* DirectoryCopy.info_dirs_present, from the output of find: the value is
\* the list of the output's lines, each a path ('' for an empty line).
dirs_present_output(r) ==
    LET lines == split_lines(r.out)
    IN IF r.no_such_file THEN Ret(<<>>, FALSE, r.host, <<r.cmd>>)
       ELSE IF r.failed THEN Ret(<<>>, TRUE, r.host, <<r.cmd>>)
       ELSE Ret([i \in 1..Len(lines) |->
                   IF lines[i] = <<>> THEN <<>> ELSE lines[i][1]],
                FALSE, r.host, <<r.cmd>>)

\* DirectoryCopy.info_dirs_present
info_dirs_present(self, fs) ==
    dirs_present_output(FsRun(Cmd(FALSE, "find -type d",
                                  <<self.remote_path>>), fs))

\* path.startswith(prefix)
startswith(path, prefix) == IsPrefix(prefix, path)

\* os.path.join(a, rel)
join(a, rel) == a \o rel

\* DirectoryCopy._get_remote_path, its assertion aside
_get_remote_path(self, path) ==
    join(self.remote_path,
         SubSeq(path, Len(self.local_path) + 1, Len(path)))

\* DirectoryCopy._get_local_path, its assertion aside
_get_local_path(self, path) ==
    join(self.local_path,
         SubSeq(path, Len(self.remote_path) + 1, Len(path)))

\* os.walk(top): the directories it visits.
walk(top) == {d \in local.dirs : IsPrefix(top, d)}

\* join(remote_root, name) for the entry at path of the directory root
remote_entry(self, path) ==
    join(_get_remote_path(self, Parent(path)), <<path[Len(path)]>>)

\* for root, dirs, files in os.walk(...): for dirname in dirs: ...
dirs_to_create_in(self, order) ==
    [i \in 1..Len(order) |-> DirectoryPresent(remote_entry(self, order[i]))]

\* The creation list with the top of the walk itself in it.
dirs_to_create_with_top(self) ==
    dirs_to_create_in(self, SetToSeq(walk(self.local_path)))

dirs_to_create(self) ==
    dirs_to_create_in(self,
        SetToSeq({d \in local.dirs :
                    Len(d) > Len(self.local_path)
                    /\ Parent(d) \in walk(self.local_path)}))

\* for root, dirs, files in os.walk(...): for filename in files: ...
files_to_copy_in(self, existing_files, order) ==
    [i \in 1..Len(order) |->
       FileCopy(remote_entry(self, order[i]), order[i],
                IF remote_entry(self, order[i]) \in DOMAIN existing_files
                THEN existing_files[remote_entry(self, order[i])] ELSE None)]

files_to_copy(self, existing_files) ==
    files_to_copy_in(self, existing_files,
        SetToSeq({f \in DOMAIN local.files :
                    Parent(f) \in walk(self.local_path)}))

\* for filepath in existing_files: ...
files_to_remove_in(order) == [i \in 1..Len(order) |-> FileAbsent(order[i])]

\* The removal list without the test for a local counterpart.
files_to_remove_all(self, existing_files) ==
    files_to_remove_in(SetToSeq(DOMAIN existing_files))

files_to_remove(self, existing_files) ==
    files_to_remove_in(
        SetToSeq({filepath \in DOMAIN existing_files :
                    ~IsFile(local, _get_local_path(self, filepath))}))

\* for dirname in existing_dirs: ...
dirs_to_remove_in(kept) == [i \in 1..Len(kept) |-> DirectoryAbsent(kept[i])]

\* The removal list without the test for a local counterpart.
dirs_to_remove_all(self, existing_dirs) == dirs_to_remove_in(existing_dirs)

dirs_to_remove(self, existing_dirs) ==
    dirs_to_remove_in(
        SelectSeq(existing_dirs,
                  LAMBDA dirname :
                      ~(_get_local_path(self, dirname) \in local.dirs)))

\* What submodules gives back: the plan pair, whether it raised, the host
\* afterwards and the commands issued.
Plans(creation, removal, raised, host, cmds) ==
    [creation |-> creation, removal |-> removal, raised |-> raised,
     host |-> host, cmds |-> cmds]

\* The assertions of _get_local_path on the paths the host listed.
asserted(self, f, d) ==
    /\ \A filepath \in DOMAIN f.value : startswith(filepath, self.remote_path)
    /\ \A i \in 1..Len(d.value) : startswith(d.value[i], self.remote_path)

\* DirectoryCopy.submodules, the stages of the creation plan the other way
\* round
submodules_enumerated_files_first(self, f, d) ==
    IF f.raised THEN Plans(<<>>, <<>>, TRUE, f.host, f.cmds)
    ELSE IF d.raised \/ ~asserted(self, f, d)
    THEN Plans(<<>>, <<>>, TRUE, d.host, f.cmds \o d.cmds)
    ELSE Plans(<<files_to_copy(self, f.value), dirs_to_create(self)>>,
               <<files_to_remove(self, f.value),
                 dirs_to_remove(self, d.value)>>,
               FALSE, d.host, f.cmds \o d.cmds)

\* DirectoryCopy.submodules, from its two enumerations on
submodules_enumerated(self, f, d) ==
    IF f.raised THEN Plans(<<>>, <<>>, TRUE, f.host, f.cmds)
    ELSE IF d.raised \/ ~asserted(self, f, d)
    THEN Plans(<<>>, <<>>, TRUE, d.host, f.cmds \o d.cmds)
    ELSE Plans(<<dirs_to_create(self), files_to_copy(self, f.value)>>,
               <<files_to_remove(self, f.value),
                 dirs_to_remove(self, d.value)>>,
               FALSE, d.host, f.cmds \o d.cmds)

\* The directories taken from an enumeration made earlier, no command
\* going to the host for them.
submodules_files_cached(self, f) ==
    submodules_enumerated(self, f,
        [info_dirs_present(self, f.host) EXCEPT !.cmds = <<>>])

\* existing_dirs = await self.info_dirs_present(host)
submodules_files(self, f) ==
    submodules_enumerated(self, f, info_dirs_present(self, f.host))

\* DirectoryCopy.submodules
submodules(self, fs) == submodules_files(self, info_files_hash(self, fs))

(***************************************************************************)
(* The trees a behaviour starts from.                                      *)
(***************************************************************************)
RemoteRoot == <<"srv">>
LocalRoot == <<"conf">>

\* Bounds: the entries of the local and of the remote tree below the root,
\* and the invocations of DirectoryCopy in one behaviour.
MaxLocal == 2
MaxRemote == 3
MaxRuns == 2

Entry(rel, kind, content) == [rel |-> rel, kind |-> kind, content |-> content]

\* What a tree may hold below its root, with contents from the given set.
Entries(contents) ==
    {Entry(<<"a">>, "dir", 0), Entry(<<"b">>, "dir", 0),
     Entry(<<"c">>, "dir", 0), Entry(<<"b", "c">>, "dir", 0)}
    \cup {Entry(rel, "file", c) :
            rel \in {<<"a">>, <<"f">>, <<"a", "f">>, <<"b", "g">>},
            c \in contents}

WellFormed(E) ==
    /\ \A e1 \in E, e2 \in E : e1.rel = e2.rel => e1 = e2
    /\ \A e \in E : Len(e.rel) > 1 =>
           \E d \in E : d.kind = "dir" /\ d.rel = Parent(e.rel)

TreeOf(root, E) ==
    [dirs |-> {root} \cup {join(root, e.rel) : e \in {x \in E : x.kind = "dir"}},
     files |-> [q \in {join(root, e.rel) : e \in {x \in E : x.kind = "file"}} |->
                  (CHOOSE e \in E : join(root, e.rel) = q).content]]

Trees(root, contents, n) ==
    {TreeOf(root, E) : E \in {X \in SUBSET Entries(contents) :
                                Cardinality(X) <= n /\ WellFormed(X)}}

\* A local tree with nested directories and a file, and a remote tree with
\* a file where the local tree has the outer directory.
NestedLocal ==
    TreeOf(LocalRoot, {Entry(<<"b">>, "dir", 0), Entry(<<"b", "c">>, "dir", 0),
                       Entry(<<"f">>, "file", 1)})
FileForDirectory == TreeOf(RemoteRoot, {Entry(<<"b">>, "file", 1)})

LocalTrees == Trees(LocalRoot, {1}, MaxLocal) \cup {NestedLocal}

\* The remote trees, the remote path missing, and the remote path a file.
RemoteTrees ==
    Trees(RemoteRoot, {1, 2}, MaxRemote)
    \cup {[dirs |-> {}, files |-> <<>>],
          [dirs |-> {}, files |-> [q \in {RemoteRoot} |-> 1]],
          FileForDirectory}

NoTree == [dirs |-> {}, files |-> <<>>]
NoFact == AptUpdated(<<>>)
NoHost == CHOOSE h \in AptHosts : TRUE
NoUnit == FilePresent(<<>>)
\* An invocation: its number and mode, the remote tree it started from,
\* whether the plan pair is computed, whether computing it raised, the
\* commands computing it issued, the write commands issued so far, those of
\* them issued by the plan computation or a check, whether the plan
\* computation or a check changed the remote tree, and whether the remote
\* tree changed in the course of the invocation before.
NoRun == [n |-> 0, mode |-> "none", pre |-> NoTree, planned |-> FALSE,
          raised |-> FALSE, cmds |-> <<>>, writes |-> 0, checkWrites |-> 0,
          checkChanged |-> FALSE, hostChanged |-> FALSE]
NoPlan == << <<>>, <<>> >>

\* The last step against the host: what it was, the commands it issued,
\* whether the host changed, and the step's value and whether it raised.
Step(step, cmds, changed, value, raised) ==
    [step |-> step, cmds |-> cmds, changed |-> changed, value |-> value,
     raised |-> raised]
NoStep == Step("none", <<>>, FALSE, FALSE, FALSE)

\* The DirectoryCopy of a "dir" behaviour.
TheCopy == DirectoryCopy(RemoteRoot, LocalRoot)

\* The modules a "module" behaviour may be about.
Modules ==
    LET paths == {join(RemoteRoot, <<"a">>), join(RemoteRoot, <<"a", "f">>)}
    IN UNION {{FilePresent(q), FileAbsent(q), DirectoryPresent(q),
               DirectoryAbsent(q), FileContent(q, 1),
               FileHash(q, encode(sha256_hexdigest(1))),
               FileHash(q, sha256_hexdigest(1)),
               FileCopy(q, join(LocalRoot, <<"a", "f">>), None)} : q \in paths}

ModuleLocal ==
    TreeOf(LocalRoot, {Entry(<<"a">>, "dir", 0), Entry(<<"a", "f">>, "file", 1)})

Idle(s) ==
    /\ scenario = s
    /\ IF s = "agg" THEN TRUE ELSE payload = NoPayload /\ outcome = NoOutcome
    /\ IF s = "fact" THEN TRUE
       ELSE fact = NoFact /\ apt = NoHost /\ calls = <<NoCall(NoHost), NoCall(NoHost)>>
    /\ IF s \in {"module", "dir"} THEN TRUE
       ELSE hashBytes = FALSE /\ local = NoTree /\ remote = NoTree
    /\ IF s = "module" THEN TRUE ELSE unit = NoUnit
    /\ IF s = "dir" THEN TRUE ELSE plan = NoPlan /\ status = NoPlan /\ run = NoRun

InitAgg ==
    /\ Idle("agg")
    /\ payload \in Payloads
    /\ outcome = NoOutcome
    /\ last = NoStep

InitFact ==
    /\ Idle("fact")
    /\ fact \in Facts
    /\ apt \in AptHosts
    /\ calls = <<NoCall(apt), NoCall(apt)>>
    /\ last = NoStep

InitModule ==
    /\ Idle("module")
    /\ hashBytes \in BOOLEAN
    /\ local = ModuleLocal
    /\ remote \in RemoteTrees
    /\ unit \in Modules
    /\ last = NoStep

InitDir ==
    /\ Idle("dir")
    /\ hashBytes \in BOOLEAN
    /\ local \in LocalTrees
    /\ remote \in RemoteTrees
    /\ plan = NoPlan
    /\ status = NoPlan
    /\ run \in {[NoRun EXCEPT !.n = 1, !.mode = m, !.pre = remote] :
                  m \in {"check", "apply"}}
    /\ last = NoStep

Init == InitAgg \/ InitFact \/ InitModule \/ InitDir

(***************************************************************************)
(* Actions: all_true, any_true and the truth value of the outcomes.        *)
(***************************************************************************)
CallAllTrue ==
    /\ scenario = "agg"
    /\ payload.kind = "list"
    /\ outcome' = [op |-> "all_true", value |-> all_true(payload.items)]
    /\ UNCHANGED <<scenario, payload, factVars, fsVars, dirVars>>

CallAnyTrue ==
    /\ scenario = "agg"
    /\ payload.kind = "list"
    /\ outcome' = [op |-> "any_true", value |-> any_true(payload.items)]
    /\ UNCHANGED <<scenario, payload, factVars, fsVars, dirVars>>

BoolFactCheck ==
    /\ scenario = "agg"
    /\ outcome' = [op |-> "FactCheck", value |-> FactCheck_bool(payload)]
    /\ UNCHANGED <<scenario, payload, factVars, fsVars, dirVars>>

BoolFactResult ==
    /\ scenario = "agg"
    /\ outcome' = [op |-> "FactResult", value |-> FactResult_bool(payload)]
    /\ UNCHANGED <<scenario, payload, factVars, fsVars, dirVars>>

(***************************************************************************)
(* Actions: a fact checked and applied.                                    *)
(***************************************************************************)
Called(c) ==
    /\ calls' = <<c, calls[1]>>
    /\ apt' = c.host
    /\ UNCHANGED <<scenario, fact, aggVars, fsVars, dirVars>>

FactCheck ==
    /\ scenario = "fact"
    /\ Called(Fact_check(fact, apt))

FactApply ==
    /\ scenario = "fact"
    /\ Called(Fact_apply(fact, apt))

(***************************************************************************)
(* Actions: a file or directory module checked and applied.  The engine    *)
(* applies a module only when its check has just reported false.           *)
(***************************************************************************)
Writes(cmds) ==
    Cardinality({i \in 1..Len(cmds) : cmds[i].prog \in WriteProgs})

Stepped(step, cmds, host, value, raised) ==
    /\ remote' = host
    /\ last' = Step(step, cmds, host # remote, value, raised)
    /\ UNCHANGED <<scenario, hashBytes, local, unit, aggVars, factVars, dirVars>>

ModuleChecked(c) == Stepped("check", c.cmds, c.host, c.value, c.raised)

ModuleCheck ==
    /\ scenario = "module"
    /\ ModuleChecked(check(unit, remote))

ModuleApplied(c, a) ==
    Stepped("apply", c.cmds \o a.cmds, a.host, a.value, a.raised)

ModuleApplyChecked(c) ==
    IF c.raised \/ c.value
    THEN Stepped("apply", c.cmds, c.host, FALSE, c.raised)
    ELSE ModuleApplied(c, apply(unit, c.host))

ModuleApply ==
    /\ scenario = "module"
    /\ ModuleApplyChecked(check(unit, remote))

\* The module's own apply called as it is, without a check before it.
ModuleMutated(a) == Stepped("mutate", a.cmds, a.host, a.value, a.raised)

ModuleMutate ==
    /\ scenario = "module"
    /\ ModuleMutated(apply(unit, remote))

(***************************************************************************)
(* Actions: DirectoryCopy.  An invocation computes the plan pair, then     *)
(* runs the two plans side by side: the stages of a plan in order, the     *)
(* units of a stage in any order, each unit checked and, in an apply run,  *)
(* applied when its check reported false.  A unit that raises stops the    *)
(* later stages of its plan.                                               *)
(***************************************************************************)
Pending(stages) ==
    [s \in 1..Len(stages) |-> [i \in 1..Len(stages[s]) |-> "pending"]]

Planned(r) ==
    /\ plan' = <<r.creation, r.removal>>
    /\ status' = <<Pending(r.creation), Pending(r.removal)>>
    /\ remote' = r.host
    /\ run' = [run EXCEPT !.planned = TRUE, !.raised = r.raised,
                          !.cmds = r.cmds, !.writes = @ + Writes(r.cmds),
                          !.checkWrites = @ + Writes(r.cmds),
                          !.checkChanged = @ \/ r.host # remote]
    /\ UNCHANGED <<scenario, hashBytes, local, unit, last, aggVars, factVars>>

Plan ==
    /\ scenario = "dir"
    /\ ~run.planned
    /\ Planned(submodules(TheCopy, remote))

\* The statuses a unit ends in without having raised.
Settled ==
    IF run.mode = "check" THEN {"present", "absent"} ELSE {"present", "changed"}

StageDone(p, s) ==
    \A i \in 1..Len(status[p][s]) : status[p][s][i] \in Settled

\* A stage that starts once the stages before it are over, failed or not.
Startable_after_failure(p, s) ==
    \A t \in 1..(s - 1) : \A i \in 1..Len(status[p][t]) :
        status[p][t][i] \in Settled \cup {"failed"}

Startable(p, s) == \A t \in 1..(s - 1) : StageDone(p, t)

Units ==
    {u \in (1..2) \X (1..2) \X (1..(MaxLocal + MaxRemote + 2)) :
        /\ u[2] <= Len(plan[u[1]])
        /\ u[3] <= Len(plan[u[1]][u[2]])}

UnitStepped(p, s, i, to, r, checking) ==
    /\ status' = [status EXCEPT ![p][s][i] = to]
    /\ remote' = r.host
    /\ run' = [run EXCEPT
                 !.writes = @ + Writes(r.cmds),
                 !.checkWrites = IF checking THEN @ + Writes(r.cmds) ELSE @,
                 !.checkChanged = @ \/ (checking /\ r.host # remote)]
    /\ UNCHANGED <<scenario, hashBytes, local, unit, last, plan, aggVars, factVars>>

UnitChecked(p, s, i, c) ==
    UnitStepped(p, s, i,
                IF c.raised THEN "failed"
                ELSE IF c.value THEN "present" ELSE "absent", c, TRUE)

UnitCheck(p, s, i) ==
    /\ scenario = "dir"
    /\ run.planned
    /\ status[p][s][i] = "pending"
    /\ Startable(p, s)
    /\ UnitChecked(p, s, i, check(plan[p][s][i], remote))

UnitApplied(p, s, i, a) ==
    UnitStepped(p, s, i, IF a.raised THEN "failed" ELSE "changed", a, FALSE)

UnitApply(p, s, i) ==
    /\ scenario = "dir"
    /\ run.planned
    /\ run.mode = "apply"
    /\ status[p][s][i] = "absent"
    /\ UnitApplied(p, s, i, apply(plan[p][s][i], remote))

\* Nothing of the invocation is left to run.
Finished ==
    /\ scenario = "dir"
    /\ run.planned
    /\ \A u \in Units :
           /\ ~(status[u[1]][u[2]][u[3]] = "pending" /\ Startable(u[1], u[2]))
           /\ ~(run.mode = "apply" /\ status[u[1]][u[2]][u[3]] = "absent")

\* The caller invokes the DirectoryCopy again.
Invoke ==
    /\ Finished
    /\ run.n < MaxRuns
    /\ \E m \in {"check", "apply"} :
           run' = [NoRun EXCEPT !.n = run.n + 1, !.mode = m, !.pre = remote,
                                !.hostChanged = remote # run.pre]
    /\ plan' = NoPlan
    /\ status' = NoPlan
    /\ UNCHANGED <<scenario, hashBytes, local, remote, unit, last, aggVars, factVars>>

Next ==
    \/ CallAllTrue
    \/ CallAnyTrue
    \/ BoolFactCheck
    \/ BoolFactResult
    \/ FactCheck
    \/ FactApply
    \/ ModuleCheck
    \/ ModuleApply
    \/ ModuleMutate
    \/ Plan
    \/ \E u \in Units : UnitCheck(u[1], u[2], u[3])
    \/ \E u \in Units : UnitApply(u[1], u[2], u[3])
    \/ Invoke

Spec == Init /\ [][Next]_vars

\* The parts of the program on their own.
NextAgg == CallAllTrue \/ CallAnyTrue \/ BoolFactCheck \/ BoolFactResult
SpecAgg == InitAgg /\ [][NextAgg]_vars

NextFact == FactCheck \/ FactApply
SpecFact == InitFact /\ [][NextFact]_vars

NextModule == ModuleCheck \/ ModuleApply \/ ModuleMutate
SpecModule == InitModule /\ [][NextModule]_vars

NextDir ==
    \/ Plan
    \/ \E u \in Units : UnitCheck(u[1], u[2], u[3])
    \/ \E u \in Units : UnitApply(u[1], u[2], u[3])
    \/ Invoke
SpecDir == InitDir /\ [][NextDir]_vars

(***************************************************************************)
(* Claims                                                                  *)
(***************************************************************************)
\* The boolean leaves of a nested list, as a set.
RECURSIVE LeafVals(_)
LeafVals(iterable) ==
    IF iterable = <<>> THEN {}
    ELSE LET element == Head(iterable) IN
         (IF IsIterable(element) THEN LeafVals(element.items)
          ELSE {element.val}) \cup LeafVals(Tail(iterable))

\* The AND-reduction and the OR-reduction of a nested list's boolean leaves.
AndOfLeaves(iterable) == \A v \in LeafVals(iterable) : v
OrOfLeaves(iterable) == \E v \in LeafVals(iterable) : v

Nested_T_TF == <<Leaf(TRUE), Group(<<Leaf(TRUE), Leaf(FALSE)>>)>>
Nested_T_TT == <<Leaf(TRUE), Group(<<Leaf(TRUE), Leaf(TRUE)>>)>>
Nested_F_FT == <<Leaf(FALSE), Group(<<Leaf(FALSE), Leaf(TRUE)>>)>>

\* C1: Fact.apply first runs check; it calls enforce exactly once when that
\* check reported false and never when it reported true, and then returns
\* an outcome whose value is False, for every fact and every host state.
C1_ApplyEnforcesOnlyWhenAbsent ==
    (scenario = "fact" /\ calls[1].op = "apply") =>
        /\ calls[1].trace[1] = "enquire"
        /\ ~enquire(fact, calls[1].pre).value =>
               calls[1].trace = <<"enquire", "enforce">>
        /\ enquire(fact, calls[1].pre).value =>
               /\ calls[1].trace = <<"enquire">>
               /\ ~calls[1].value
               /\ ~calls[1].raised

\* C1 witness: an apply that enforced, followed by an apply that found the
\* fact in place and did not.
C1_Witness ==
    /\ scenario = "fact"
    /\ calls[2].op = "apply"
    /\ calls[2].trace = <<"enquire", "enforce">>
    /\ calls[1].op = "apply"
    /\ calls[1].trace = <<"enquire">>

\* C2: for any fact and any host state, the second of two applies in
\* succession gives a false (unchanged) outcome, and a check made right
\* after an apply reports present.
C2_SecondApplyUnchanged ==
    (/\ scenario = "fact"
     /\ calls[2].op = "apply"
     /\ ~calls[2].raised
     /\ ~calls[1].raised) =>
        /\ calls[1].op = "apply" => ~calls[1].value
        /\ calls[1].op = "check" => calls[1].value

\* The path that corresponds to a path under another root.
Corresponding(from, to, path) == to \o SubSeq(path, Len(from) + 1, Len(path))
ToRemote(path) == Corresponding(LocalRoot, RemoteRoot, path)
ToLocal(path) == Corresponding(RemoteRoot, LocalRoot, path)

\* The remote tree in exact correspondence with the local tree.
Mirror ==
    [dirs |-> {ToRemote(d) : d \in local.dirs},
     files |-> [q \in {ToRemote(f) : f \in DOMAIN local.files} |->
                  local.files[ToLocal(q)]]]

\* The units of a stage, their remote paths, and the statuses of the units
\* of a class.
StageSet(p, s) == {plan[p][s][i] : i \in 1..Len(plan[p][s])}
PathsOf(p, s) == {u.remote_path : u \in StageSet(p, s)}
ClassesOf(p, s) == {u.cls : u \in StageSet(p, s)}
StatusOf(cls) ==
    {status[u[1]][u[2]][u[3]] :
       u \in {v \in Units : plan[v[1]][v[2]][v[3]].cls = cls}}
Started(cls) == \E st \in StatusOf(cls) : st # "pending"
Completed(cls) == \A st \in StatusOf(cls) : st \in Settled

\* The plan pair of the invocation is computed and computing it did not
\* raise.
HasPlan == scenario = "dir" /\ run.planned /\ ~run.raised

\* C3: a check issues no mutating command and no put, and leaves the host
\* as it was: enquire of a fact, check of a file or directory module, the
\* plan computation of DirectoryCopy and the checks of its units; after a
\* check-only run the host state equals the state before it.
C3_CheckIsPure ==
    /\ (scenario = "fact" /\ calls[1].op = "check") =>
           /\ Writes(calls[1].cmds) = 0
           /\ calls[1].host = calls[1].pre
           /\ apt = calls[1].pre
    /\ (scenario = "module" /\ last.step = "check") =>
           /\ Writes(last.cmds) = 0
           /\ ~last.changed
    /\ scenario = "dir" =>
           /\ run.checkWrites = 0
           /\ ~run.checkChanged
           /\ run.mode = "check" => (run.writes = 0 /\ remote = run.pre)

\* C3 witness: a check-only run of DirectoryCopy, over, in which a unit
\* reported its state absent.
C3_Witness ==
    /\ Finished
    /\ run.mode = "check"
    /\ \E u \in Units : status[u[1]][u[2]][u[3]] = "absent"

\* C4: applying the plan pair of DirectoryCopy ends with the remote tree in
\* exact correspondence with the local tree, from any initial remote tree
\* (stated here for the invocations whose plan computation did not raise
\* and none of whose units failed).
C4_ApplyEndsInCorrespondence ==
    (/\ HasPlan
     /\ run.mode = "apply"
     /\ Finished
     /\ RemoteRoot \in run.pre.dirs
     /\ \A u \in Units : status[u[1]][u[2]][u[3]] # "failed") =>
        remote = Mirror

\* C5: the creation plan is exactly the stages [directories to create,
\* files to copy] and the removal plan exactly [files to remove,
\* directories to remove]; no FileCopy starts before every DirectoryPresent
\* has completed and no DirectoryAbsent before every FileAbsent has.
C5_PlanStagesInOrder ==
    HasPlan =>
        /\ Len(plan[1]) = 2
        /\ Len(plan[2]) = 2
        /\ ClassesOf(1, 1) \subseteq {"DirectoryPresent"}
        /\ ClassesOf(1, 2) \subseteq {"FileCopy"}
        /\ ClassesOf(2, 1) \subseteq {"FileAbsent"}
        /\ ClassesOf(2, 2) \subseteq {"DirectoryAbsent"}
        /\ Started("FileCopy") => Completed("DirectoryPresent")
        /\ Started("DirectoryAbsent") => Completed("FileAbsent")

\* C5 witness: a FileCopy and a DirectoryAbsent have started in a run whose
\* plans hold a DirectoryPresent and a FileAbsent too.
C5_Witness ==
    /\ HasPlan
    /\ StatusOf("DirectoryPresent") # {}
    /\ StatusOf("FileAbsent") # {}
    /\ Started("FileCopy")
    /\ Started("DirectoryAbsent")

\* C6: submodules emits a FileAbsent for exactly the enumerated remote files
\* with no local file at the corresponding path, a DirectoryAbsent for
\* exactly the enumerated remote directories with no local directory there,
\* exactly one DirectoryPresent per local directory below the root and
\* exactly one FileCopy per local file, each at the remote path that
\* replaces the local root with the remote root.
C6_EmittedUnits ==
    HasPlan =>
        /\ PathsOf(1, 1) = {ToRemote(d) : d \in local.dirs \ {LocalRoot}}
        /\ PathsOf(1, 2) = {ToRemote(f) : f \in DOMAIN local.files}
        /\ \A u \in StageSet(1, 2) : u.local_path = ToLocal(u.remote_path)
        /\ PathsOf(2, 1) =
               {q \in DOMAIN run.pre.files : ToLocal(q) \notin DOMAIN local.files}
        /\ PathsOf(2, 2) = {d \in run.pre.dirs : ToLocal(d) \notin local.dirs}
        /\ \A p \in 1..2, s \in 1..2 :
               Len(plan[p][s]) = Cardinality(PathsOf(p, s))

\* C6 witness: a plan pair with a unit in each of its four stages, a
\* remote directory below the root having a local counterpart.
C6_Witness ==
    /\ HasPlan
    /\ \A p \in 1..2, s \in 1..2 : Len(plan[p][s]) > 0
    /\ \E d \in run.pre.dirs \ {RemoteRoot} : ToLocal(d) \in local.dirs

\* The trees of the diff example: local {a/, a/f}, remote {b/g, c/}.
DiffExample ==
    /\ scenario = "dir"
    /\ run.planned
    /\ local.dirs = {LocalRoot, join(LocalRoot, <<"a">>)}
    /\ DOMAIN local.files = {join(LocalRoot, <<"a", "f">>)}
    /\ run.pre.dirs = {RemoteRoot, join(RemoteRoot, <<"b">>),
                       join(RemoteRoot, <<"c">>)}
    /\ DOMAIN run.pre.files = {join(RemoteRoot, <<"b", "g">>)}

DiffExampleCreationAndFiles ==
    /\ ~run.raised
    /\ StageSet(1, 1) = {DirectoryPresent(join(RemoteRoot, <<"a">>))}
    /\ StageSet(1, 2) = {FileCopy(join(RemoteRoot, <<"a", "f">>),
                                  join(LocalRoot, <<"a", "f">>), None)}
    /\ StageSet(2, 1) = {FileAbsent(join(RemoteRoot, <<"b", "g">>))}
    /\ Len(plan[1][1]) = 1
    /\ Len(plan[1][2]) = 1
    /\ Len(plan[2][1]) = 1

\* C7 as stated: in the diff example the creation plan is
\* {DirectoryPresent(a)}, {FileCopy(a/f)} and the removal plan is
\* {FileAbsent(b/g)}, {DirectoryAbsent(c)}, with no other unit in any stage.
C7_DiffExampleAsStated ==
    DiffExample =>
        /\ DiffExampleCreationAndFiles
        /\ StageSet(2, 2) = {DirectoryAbsent(join(RemoteRoot, <<"c">>))}

\* C7 amended: in the diff example the creation plan is
\* {DirectoryPresent(a)}, {FileCopy(a/f)} and the removal plan is
\* {FileAbsent(b/g)}, {DirectoryAbsent(b), DirectoryAbsent(c)}: the
\* directory b that holds g is enumerated and has no local counterpart.
C7_DiffExample ==
    DiffExample =>
        /\ DiffExampleCreationAndFiles
        /\ StageSet(2, 2) = {DirectoryAbsent(join(RemoteRoot, <<"b">>)),
                             DirectoryAbsent(join(RemoteRoot, <<"c">>))}
        /\ Len(plan[2][2]) = 2

\* C7 witness: the plan pair of the diff example, computed.
C7_Witness == DiffExample /\ ~run.raised /\ Len(plan[2][2]) = 2

\* The trees were identical by content and structure when the invocation
\* began.
Identical == scenario = "dir" /\ run.pre = Mirror

C9_AllTrueIsAndReduction ==
    /\ outcome.op = "all_true" =>
           /\ outcome.value = AndOfLeaves(payload.items)
           /\ payload.items = <<>> => outcome.value
           /\ payload.items = Nested_T_TT => outcome.value
           /\ payload.items = Nested_T_TF => ~outcome.value
    /\ (outcome.op = "FactCheck" /\ payload.kind = "list") =>
           outcome.value = AndOfLeaves(payload.items)

\* C9 witness: the truth value of a FactCheck holding [T,[T,F]], computed
\* and false.
C9_Witness ==
    /\ outcome.op = "FactCheck"
    /\ payload = Group(Nested_T_TF)
    /\ ~outcome.value

\* C10: any_true is the OR-reduction of a nested list of booleans: true iff
\* at least one boolean leaf is true, so false of [] and true of [F,[F,T]];
\* the truth value of a FactResult with a list result is this reduction.
C10_AnyTrueIsOrReduction ==
    /\ outcome.op = "any_true" =>
           /\ outcome.value = OrOfLeaves(payload.items)
           /\ payload.items = <<>> => ~outcome.value
           /\ payload.items = Nested_F_FT => outcome.value
    /\ (outcome.op = "FactResult" /\ payload.kind = "list") =>
           outcome.value = OrOfLeaves(payload.items)

\* One unit run on its own in an apply run: checked, and applied when the
\* check reported false.
UnitRunApplied(a) ==
    [host |-> a.host, to |-> IF a.raised THEN "failed" ELSE "changed"]
UnitRunChecked(u, c) ==
    IF c.raised THEN [host |-> c.host, to |-> "failed"]
    ELSE IF c.value THEN [host |-> c.host, to |-> "present"]
    ELSE UnitRunApplied(apply(u, c.host))
UnitRun(u, fs) == UnitRunChecked(u, check(u, fs))

\* The units of a stage run one after the other in the order of the list.
StageRunNext(done, r) == [host |-> r.host, sts |-> Append(done.sts, r.to)]
RECURSIVE StageRun(_, _, _)
StageRun(stage, i, done) ==
    IF i > Len(stage) THEN done
    ELSE StageRun(stage, i + 1,
                  StageRunNext(done, UnitRun(stage[i], done.host)))

\* A plan of two stages run on its own: the second stage only when no unit
\* of the first failed.
PlanRunSecond(stages, first, second) ==
    [host |-> second.host, sts |-> <<first.sts, second.sts>>]
PlanRunFirst(stages, first) ==
    IF \E i \in 1..Len(first.sts) : first.sts[i] = "failed"
    THEN [host |-> first.host,
          sts |-> <<first.sts, [i \in 1..Len(stages[2]) |-> "pending"]>>]
    ELSE PlanRunSecond(stages, first,
                       StageRun(stages[2], 1, [host |-> first.host, sts |-> <<>>]))
PlanRun(stages, fs) ==
    PlanRunFirst(stages, StageRun(stages[1], 1, [host |-> fs, sts |-> <<>>]))

\* The two plans run one after the other, from the remote tree the
\* invocation began with: the creation plan first, and the removal plan
\* first.
CreationThenRemovalEnd(c, r) == [host |-> r.host, sts |-> <<c.sts, r.sts>>]
CreationThenRemovalFrom(c) ==
    CreationThenRemovalEnd(c, PlanRun(plan[2], c.host))
CreationThenRemoval == CreationThenRemovalFrom(PlanRun(plan[1], run.pre))
RemovalThenCreationEnd(r, c) == [host |-> c.host, sts |-> <<c.sts, r.sts>>]
RemovalThenCreationFrom(r) ==
    RemovalThenCreationEnd(r, PlanRun(plan[1], r.host))
RemovalThenCreation == RemovalThenCreationFrom(PlanRun(plan[2], run.pre))

\* What the invocation ended in: the remote tree and the unit outcomes.
RunEnd == [host |-> remote, sts |-> status]

\* C11: the creation plan and the removal plan are independent: every
\* interleaving of the two that keeps each plan's stage order ends in the
\* unit outcomes and the remote tree that running the two plans one after
\* the other ends in (stated here for the plan pairs with at most one unit
\* in a stage, where the order inside a stage plays no part).
C11_PlansIndependent ==
    (/\ HasPlan
     /\ run.mode = "apply"
     /\ Finished
     /\ \A p \in 1..2, s \in 1..2 : Len(plan[p][s]) <= 1) =>
        /\ RunEnd = CreationThenRemoval
        /\ RunEnd = RemovalThenCreation

\* The remote target path did not exist when the invocation began.
RemoteMissing == scenario = "dir" /\ ~Exists(run.pre, RemoteRoot)

\* C12: when the remote target path does not exist, the file enumeration
\* gives an empty mapping and the directory enumeration an empty list
\* instead of raising; the plan computation completes with a removal plan
\* of two empty stages and a creation plan that covers the whole local
\* tree, no FileCopy carrying a pre-seeded fingerprint.
C12_MissingRemotePath ==
    (RemoteMissing /\ run.planned) =>
        /\ ~info_files_hash(TheCopy, run.pre).raised
        /\ DOMAIN info_files_hash(TheCopy, run.pre).value = {}
        /\ ~info_dirs_present(TheCopy, run.pre).raised
        /\ info_dirs_present(TheCopy, run.pre).value = <<>>
        /\ ~run.raised
        /\ plan[2] = << <<>>, <<>> >>
        /\ Len(plan[1]) = 2
        /\ PathsOf(1, 1) = {ToRemote(d) : d \in local.dirs \ {LocalRoot}}
        /\ ClassesOf(1, 1) \subseteq {"DirectoryPresent"}
        /\ PathsOf(1, 2) = {ToRemote(f) : f \in DOMAIN local.files}
        /\ \A u \in StageSet(1, 2) :
               /\ u.cls = "FileCopy"
               /\ u.local_path = ToLocal(u.remote_path)
               /\ u.remote_hash = None

\* C12 witness: the plan pair computed against a missing remote path, for a
\* local tree with a directory and a file in it.
C12_Witness ==
    /\ RemoteMissing
    /\ run.planned
    /\ ~run.raised
    /\ Len(plan[1][1]) > 0
    /\ Len(plan[1][2]) > 0

\* C13: a FileHash cannot restore its state: its apply always ends in an
\* error, for every host state, without a command or a transfer issued to
\* the host, which is left as it was; so does the engine's apply of it
\* whenever the check reported false.
C13_FileHashApplyRaises ==
    (scenario = "module" /\ unit.cls = "FileHash") =>
        /\ last.step = "mutate" =>
               /\ last.raised
               /\ last.cmds = <<>>
               /\ ~last.changed
        /\ (last.step = "apply" /\ ~check(unit, remote).value) =>
               /\ last.raised
               /\ Writes(last.cmds) = 0
               /\ ~last.changed

\* C13 witness: the apply of a FileHash called against a host that holds
\* the file, with another content than the one the hash is of.
C13_Witness ==
    /\ scenario = "module"
    /\ unit.cls = "FileHash"
    /\ last.step = "mutate"
    /\ IsFile(remote, unit.remote_path)
    /\ remote.files[unit.remote_path] = 2

\* A unit of the stage has failed.
StageFailed(p, s) == \E i \in 1..Len(status[p][s]) : status[p][s][i] = "failed"

\* C14: when a unit of a stage fails, no unit of a later stage of the same
\* plan is started, while the other units of the failing stage can still
\* run to their end: one not yet checked can be checked, one found absent
\* in an apply run can be applied.
C14_StageFailureContained ==
    HasPlan =>
        \A p \in 1..2 :
            /\ StageFailed(p, 1) =>
                   \A j \in 1..Len(status[p][2]) : status[p][2][j] = "pending"
            /\ \A s \in 1..2 : \A j \in 1..Len(status[p][s]) :
                   (StageFailed(p, s) /\ Startable(p, s)) =>
                       /\ status[p][s][j] = "pending" =>
                              ENABLED UnitCheck(p, s, j)
                       /\ (status[p][s][j] = "absent" /\ run.mode = "apply") =>
                              ENABLED UnitApply(p, s, j)

\* C14 witness: a run that is over with a failed unit in the first stage of
\* the creation plan, the other unit of that stage found present, and the
\* unit of the second stage never started.
C14_Witness ==
    /\ HasPlan
    /\ Finished
    /\ Len(status[1][1]) = 2
    /\ Len(status[1][2]) = 1
    /\ StageFailed(1, 1)
    /\ \E j \in 1..2 : status[1][1][j] = "present"
    /\ status[1][2][1] = "pending"

\* The unit is of the class and this step of an apply run applies it: its
\* mutating command or transfer is issued against the remote tree as it is
\* before the step.
Applies(u, cls) ==
    /\ scenario = "dir"
    /\ run.mode = "apply"
    /\ plan[u[1]][u[2]][u[3]].cls = cls
    /\ status[u[1]][u[2]][u[3]] = "absent"
    /\ status'[u[1]][u[2]][u[3]] # "absent"

\* C15: when the removal plan runs in stage order, the units of a stage in
\* any order, every rmdir of a DirectoryAbsent is issued against a directory
\* that is empty at that moment, from any initial remote tree, nested
\* directories without a local counterpart included.
C15_RmdirOnEmptyDirectory ==
    [][\A u \in Units :
          Applies(u, "DirectoryAbsent") =>
              Under(remote, plan[u[1]][u[2]][u[3]].remote_path)
                  = {plan[u[1]][u[2]][u[3]].remote_path}]_vars

\* C16: when the creation plan runs in stage order, every put of a FileCopy
\* targets a remote path whose parent directory exists on the remote at
\* that moment, from any initial remote state, the remote root missing and
\* files directly in the local root included.
C16_PutParentExists ==
    [][\A u \in Units :
          Applies(u, "FileCopy") =>
              IsDir(remote, Parent(plan[u[1]][u[2]][u[3]].remote_path))]_vars

\* The FileCopy units of the creation plan, by their place in the stage,
\* those whose remote path the file enumeration found, and what a check of
\* the unit makes of the remote tree as it is.
Copies == 1..Len(plan[1][2])
Enumerated(i) == plan[1][2][i].remote_path \in DOMAIN run.pre.files
CopyCheck(i) == check(plan[1][2][i], remote)

\* C17: a FileCopy built for a local file whose remote path the file
\* enumeration found carries the enumerated fingerprint; its check issues
\* no command and is true iff get_local_file_hash of the local file equals
\* that fingerprint.  A FileCopy without a fingerprint issues exactly one
\* command in its check, the sha256sum of its remote path.
C17_PreSeededFingerprint ==
    HasPlan =>
        \A i \in Copies :
            /\ Enumerated(i) =>
                   /\ plan[1][2][i].remote_hash =
                          info_files_hash(TheCopy, run.pre).value[plan[1][2][i].remote_path]
                   /\ plan[1][2][i].remote_hash =
                          sha256_hexdigest(run.pre.files[plan[1][2][i].remote_path])
                   /\ CopyCheck(i).cmds = <<>>
                   /\ ~CopyCheck(i).raised
                   /\ CopyCheck(i).value =
                          (get_local_file_hash(plan[1][2][i].local_path)
                               = plan[1][2][i].remote_hash)
                   /\ status[1][2][i] = "present" =>
                          get_local_file_hash(plan[1][2][i].local_path)
                              = plan[1][2][i].remote_hash
                   /\ status[1][2][i] \in {"absent", "changed", "failed"} =>
                          get_local_file_hash(plan[1][2][i].local_path)
                              # plan[1][2][i].remote_hash
            /\ ~Enumerated(i) =>
                   /\ plan[1][2][i].remote_hash = None
                   /\ Len(CopyCheck(i).cmds) = 1
                   /\ CopyCheck(i).cmds[1].prog = "sha256sum"
                   /\ CopyCheck(i).cmds[1].args = <<plan[1][2][i].remote_path>>

\* C17 witness: a FileCopy with the enumerated fingerprint checked and found
\* present, and one without a fingerprint checked, in the same run.
C17_Witness ==
    /\ HasPlan
    /\ \E i \in Copies : Enumerated(i) /\ status[1][2][i] = "present"
    /\ \E i \in Copies : ~Enumerated(i) /\ status[1][2][i] # "pending"

\* No unit of the invocation's plan pair has acted yet.
NoUnitActed ==
    \A u \in Units : status[u[1]][u[2]][u[3]] = "pending"

\* C18: computing the plan pair issues exactly two commands, the file
\* enumeration and then the directory enumeration of the remote root,
\* whatever the trees hold, and leaves the host as it found it; the plan
\* pair of every invocation is made of the host's tree at that invocation:
\* the removals and the fingerprints given to the FileCopy units are those
\* of the tree the invocation started from.
C18_PlanFromTwoEnumerations ==
    (scenario = "dir" /\ run.planned) =>
        /\ run.cmds =
               <<Cmd(FALSE, "find -type f -exec sha256sum", <<RemoteRoot>>),
                 Cmd(FALSE, "find -type d", <<RemoteRoot>>)>>
        /\ NoUnitActed => remote = run.pre
        /\ ~run.raised =>
               /\ PathsOf(2, 1) =
                      {q \in DOMAIN run.pre.files : ~IsFile(local, ToLocal(q))}
               /\ PathsOf(2, 2) =
                      {d \in run.pre.dirs : ToLocal(d) \notin local.dirs}
               /\ {u.remote_path : u \in {v \in StageSet(1, 2) :
                                             v.remote_hash # None}}
                      = PathsOf(1, 2) \cap DOMAIN run.pre.files

\* C18 witness: the plan pair of a second invocation, computed after the
\* first invocation changed the host, with a removal in it.
C18_Witness ==
    /\ HasPlan
    /\ run.n = 2
    /\ NoUnitActed
    /\ run.hostChanged
    /\ Len(plan[2][1]) + Len(plan[2][2]) > 0

\* C19: for AptPresent and AptAbsent alike, the apt-get command that
\* enforce issues has the sudo prefix iff the unit's sudo flag is set, for
\* every package name and every value of the purge flag.
C19_SudoFollowsFlag ==
    (/\ scenario = "fact"
     /\ fact.cls \in {"AptPresent", "AptAbsent"}
     /\ calls[1].op = "apply"
     /\ calls[1].trace = <<"enquire", "enforce">>) =>
        \A i \in 1..Len(calls[1].cmds) :
            calls[1].cmds[i].prog \in {"apt-get install", "apt-get remove"}
                => calls[1].cmds[i].sudo = fact.sudo
====
